---- MODULE Spec2Model ----
(***************************************************************************)
(* A model of salaries.py: the progressive tax function irs() and the      *)
(* Income model (gross, net, netsalary, netbonus).                         *)
(*                                                                         *)
(* Monetary values are Python Decimals.  A Decimal is modelled as a pair   *)
(* <<cents, micro>> standing for the number  cents/100 + micro/10^8,       *)
(* with 0 <= micro < Micro: a fixed-point number with 8 decimal places,    *)
(* split in two machine integers so that products do not overflow.  Sums,  *)
(* differences and products of the amounts used below (at most 3 decimal   *)
(* places, rates in whole percent, split over 1 or 2 people) are exact in  *)
(* this representation, as they are in Python's 28-digit context.  A       *)
(* quotient or product with more decimal places (an amount split over 3    *)
(* people) is rounded half-even, as Python rounds it, at the 8th decimal   *)
(* place where Python rounds at the 28th significant digit.                *)
(***************************************************************************)
EXTENDS Integers, Sequences, FiniteSets, TLC

VARIABLES
    now,        \* the calendar year dt.datetime.now() reports
    IRS,        \* irs.IRS: [keys: the year keys in stored order, rows: year -> brackets]
    RETENTION,  \* irs.RETENTION: function from year to a sequence of <<ceiling, rate>>
    inc,        \* the Income instance under use, or NoIncome
    ret,        \* what the last Income method call returned
    hist        \* the last two top-level irs() calls, oldest first

vars == <<now, IRS, RETENTION, inc, ret, hist>>

-----------------------------------------------------------------------------
(* Bounds of the model. *)

MaxKeys == 2        \* year keys in an IRS table
MaxBrackets == 2    \* brackets in one year's bracket sequence
MaxPeople == 3      \* num_people / n_people
MaxBonus == 2       \* bonuses of one Income

-----------------------------------------------------------------------------
(* Decimal arithmetic. *)

Micro == 1000000

Norm(c, m) == <<c + (m \div Micro), m % Micro>>

Dec(cents) == <<cents, 0>>

Euro(e) == <<100 * e, 0>>

\* A Decimal literal with three decimal places, given in thousandths.
Mills(m) == Norm(m \div 10, (m % 10) * (Micro \div 10))

Zero == Dec(0)

DecAdd(a, b) == Norm(a[1] + b[1], a[2] + b[2])

DecNeg(a) == Norm(-a[1], -a[2])

DecSub(a, b) == DecAdd(a, DecNeg(b))

DecLess(a, b) == a[1] < b[1] \/ (a[1] = b[1] /\ a[2] < b[2])

DecLeq(a, b) == a = b \/ DecLess(a, b)

\* Decimal * int (exact).
DecMulInt(a, k) == Norm(a[1] * k, a[2] * k)

\* floor(a / n) and the remainder, for an integer n > 0.
DivFloor(a, n) ==
    LET rest == (a[1] % n) * Micro + a[2]
    IN [q |-> Norm(a[1] \div n, rest \div n), r |-> rest % n]

\* ROUND_HALF_EVEN, the rounding of Python's default context.
RoundHalfEven(q, r, n) ==
    IF 2 * r > n \/ (2 * r = n /\ q[2] % 2 = 1) THEN DecAdd(q, <<0, 1>>) ELSE q

\* Decimal / int.
DecDivInt(a, n) == LET d == DivFloor(a, n) IN RoundHalfEven(d.q, d.r, n)

\* Decimal * rate, a rate being a Decimal fraction given in whole percent.
DecMulRate(a, pct) == DecDivInt(DecMulInt(a, pct), 100)

\* Decimal.quantize(Decimal("0.01")): to whole cents, half-even.
Quantize(a) ==
    IF 2 * a[2] > Micro \/ (2 * a[2] = Micro /\ a[1] % 2 = 1)
    THEN Dec(a[1] + 1) ELSE Dec(a[1])

RECURSIVE DecSum(_)
DecSum(s) == IF s = <<>> THEN Zero ELSE DecAdd(Head(s), DecSum(Tail(s)))

-----------------------------------------------------------------------------
(* irs(salary, num_people) *)

IRSNotAvailable == "IRSNotAvailable"

Last(s) == s[Len(s)]

Range(s) == {s[i] : i \in DOMAIN s}

\* The while loop that resolves the year: the year whose brackets are used
\* (found), or IRSNotAvailable raised (not found).
RECURSIVE ResolveYear(_, _)
ResolveYear(tab, year) ==
    IF year \in Range(tab.keys)
    THEN [found |-> TRUE, year |-> year]
    ELSE IF year - 1 < Last(tab.keys)
         THEN [found |-> FALSE, year |-> year - 1]
         ELSE ResolveYear(tab, year - 1)

\* Walk with the break branch assigning the tax (tax = ...) where the code
\* accumulates it (tax += ...).
RECURSIVE WalkOverwrite(_, _, _, _, _)
WalkOverwrite(brackets, salary, k, previous_ceiling, tax) ==
    IF k > Len(brackets)
    THEN [tax |-> tax, stop |-> 0]
    ELSE LET ceiling == Dec(brackets[k][1])
             ptax == brackets[k][2]
         IN IF DecLess(ceiling, salary)
            THEN WalkOverwrite(brackets, salary, k + 1, ceiling,
                      DecAdd(tax, DecMulRate(DecSub(ceiling, previous_ceiling), ptax)))
            ELSE [tax |-> DecMulRate(DecSub(salary, previous_ceiling), ptax),
                  stop |-> k]

\* Walk with the test salary >= ceiling where the code has salary > ceiling.
RECURSIVE WalkInclusive(_, _, _, _, _)
WalkInclusive(brackets, salary, k, previous_ceiling, tax) ==
    IF k > Len(brackets)
    THEN [tax |-> tax, stop |-> 0]
    ELSE LET ceiling == Dec(brackets[k][1])
             ptax == brackets[k][2]
         IN IF DecLeq(ceiling, salary)
            THEN WalkInclusive(brackets, salary, k + 1, ceiling,
                      DecAdd(tax, DecMulRate(DecSub(ceiling, previous_ceiling), ptax)))
            ELSE [tax |-> DecAdd(tax, DecMulRate(DecSub(salary, previous_ceiling), ptax)),
                  stop |-> k]

\* The for loop over the brackets, from bracket k on: the tax accumulated and
\* the bracket the loop broke at (0: it ran off the end of the sequence).
RECURSIVE Walk(_, _, _, _, _)
Walk(brackets, salary, k, previous_ceiling, tax) ==
    IF k > Len(brackets)
    THEN [tax |-> tax, stop |-> 0]
    ELSE LET ceiling == Dec(brackets[k][1])
             ptax == brackets[k][2]
         IN IF DecLess(ceiling, salary)
            THEN Walk(brackets, salary, k + 1, ceiling,
                      DecAdd(tax, DecMulRate(DecSub(ceiling, previous_ceiling), ptax)))
            ELSE [tax |-> DecAdd(tax, DecMulRate(DecSub(salary, previous_ceiling), ptax)),
                  stop |-> k]

\* One call of irs: what it raised or returned, with the locals the claims
\* are about (the resolved year, the per-person salary, the bracket reached).
irs(tab, thisYear, salary, num_people) ==
    LET resolved == ResolveYear(tab, thisYear)
        year == resolved.year
    IN IF ~resolved.found
       THEN [raised |-> TRUE, year |-> 0, brackets |-> <<>>, salary |-> Zero,
             stop |-> 0, value |-> Zero]
       ELSE LET perPerson == DecDivInt(salary, num_people)
                w == Walk(tab.rows[year], perPerson, 1, Zero, Zero)
            IN [raised |-> FALSE, year |-> year, brackets |-> tab.rows[year],
                salary |-> perPerson, stop |-> w.stop,
                value |-> Quantize(DecMulInt(w.tax, num_people))]

-----------------------------------------------------------------------------
(* class Income *)

SS == 4104

\* Decimal("0.11"), in percent.
ss_tax == 11

NoIncome == [income |-> Zero, salary |-> Zero, bonus |-> <<>>, ss |-> Zero,
             taxfree |-> Zero, n_people |-> 0, year |-> 0, n_months |-> 0]

\* Income.__init__.  n_months is not kept by the object; the record keeps it
\* for the statements about gross().
NewIncome(thisYear, salary, n_months, bonus, taxfree, n_people) ==
    LET income == DecAdd(DecMulInt(salary, n_months), DecSum(bonus))
    IN [income |-> income, salary |-> salary, bonus |-> bonus,
        ss |-> DecMulRate(income, ss_tax), taxfree |-> taxfree,
        n_people |-> n_people, year |-> thisYear + 1, n_months |-> n_months]

\* What a method call left: outcome is "value" (value holds it), "list" (list
\* holds it), "None" (the method ended without a return statement) or the name
\* of the exception raised.
Result(op, outcome, value, list, collectable, tax) ==
    [op |-> op, outcome |-> outcome, value |-> value, list |-> list,
     collectable |-> collectable, tax |-> tax]

NoCall == Result("", "", Zero, <<>>, Zero, Zero)

gross(self) == Result("gross", "value", self.income, <<>>, Zero, Zero)

\* Collectable with the branch chosen by the gross income where the code
\* compares the contribution.
CollectableByIncome(self) ==
    IF DecLess(Euro(SS * self.n_people), self.income)
    THEN DecSub(self.income, Euro(SS * self.n_people))
    ELSE DecSub(self.income, self.ss)

\* The taxable base net() hands to irs.
Collectable(self) ==
    IF DecLess(self.ss, Euro(SS * self.n_people))
    THEN DecSub(self.income, Euro(SS * self.n_people))
    ELSE DecSub(self.income, self.ss)

\* net with the tax-free allowance left out of the result.
netNoAllowance(self, tab, thisYear) ==
    LET collectable == Collectable(self)
        tax == irs(tab, thisYear, collectable, self.n_people)
    IN IF tax.raised
       THEN Result("net", IRSNotAvailable, Zero, <<>>, collectable, Zero)
       ELSE Result("net", "value",
                   Quantize(DecSub(DecSub(self.income, self.ss), tax.value)),
                   <<>>, collectable, tax.value)

net(self, tab, thisYear) ==
    LET collectable == Collectable(self)
        tax == irs(tab, thisYear, collectable, self.n_people)
    IN IF tax.raised
       THEN Result("net", IRSNotAvailable, Zero, <<>>, collectable, Zero)
       ELSE Result("net", "value",
                   Quantize(DecAdd(DecSub(DecSub(self.income, self.ss), tax.value),
                                   self.taxfree)),
                   <<>>, collectable, tax.value)

\* amount * (1 - ss_tax - ptax[0]), quantized to cents.
NetOf(amount, ptax) == Quantize(DecMulRate(amount, 100 - ss_tax - ptax))

\* The loop of netsalary from bracket k on: the first return reached, or None.
RECURSIVE SalaryScan(_, _, _)
SalaryScan(rows, salary, k) ==
    IF k > Len(rows)
    THEN Result("netsalary", "None", Zero, <<>>, Zero, Zero)
    ELSE IF DecLess(salary, Dec(rows[k][1]))
         THEN Result("netsalary", "value", NetOf(salary, rows[k][2]), <<>>, Zero, Zero)
         ELSE SalaryScan(rows, salary, k + 1)

netsalary(self, retention) ==
    IF self.year \notin DOMAIN retention
    THEN Result("netsalary", "KeyError", Zero, <<>>, Zero, Zero)
    ELSE SalaryScan(retention[self.year], self.salary, 1)

\* The inner for/if of the comprehension of netbonus, for one bonus.
RECURSIVE BonusScan(_, _, _)
BonusScan(rows, bonus, k) ==
    IF k > Len(rows)
    THEN <<>>
    ELSE IF DecLess(bonus, Dec(rows[k][1]))
         THEN <<NetOf(bonus, rows[k][2])>> \o BonusScan(rows, bonus, k + 1)
         ELSE BonusScan(rows, bonus, k + 1)

\* The comprehension of netbonus: the outer for over the bonuses.
RECURSIVE BonusComprehension(_, _)
BonusComprehension(rows, bonuses) ==
    IF bonuses = <<>>
    THEN <<>>
    ELSE BonusScan(rows, Head(bonuses), 1) \o BonusComprehension(rows, Tail(bonuses))

netbonus(self, retention) ==
    IF self.bonus # <<>> /\ self.year \notin DOMAIN retention
    THEN Result("netbonus", "KeyError", Zero, <<>>, Zero, Zero)
    ELSE IF self.bonus = <<>>
         THEN Result("netbonus", "list", Zero, <<>>, Zero, Zero)
         ELSE Result("netbonus", "list", Zero,
                     BonusComprehension(retention[self.year], self.bonus), Zero, Zero)

-----------------------------------------------------------------------------
(* The inputs: the tables of irs.py, the clock, the arguments of the calls. *)

ThisYear == 2024

YearChoices == {ThisYear - 2, ThisYear - 1, ThisYear, ThisYear + 1}

NowChoices == {ThisYear - 1, ThisYear}

\* Bracket ceilings, in cents, and marginal rates, in percent.
CeilingChoices == {100000, 200000, 400000}

RateChoices == {0, 15, 45, 100}

IsIncreasing(t) == \A i \in 1..(Len(t) - 1) : t[i][1] < t[i + 1][1]

\* Every bracket sequence of at most MaxBrackets brackets with strictly
\* increasing ceilings.
BracketTables ==
    {t \in UNION {[1..k -> CeilingChoices \X RateChoices] : k \in 1..MaxBrackets} :
        IsIncreasing(t)}

\* Every order of at most MaxKeys distinct year keys.
KeySeqs ==
    {ks \in UNION {[1..k -> YearChoices] : k \in 1..MaxKeys} :
        \A i, j \in DOMAIN ks : i # j => ks[i] # ks[j]}

\* The bracket sequence a table of several years holds for year y: one
\* bracket, told apart from the other years' by its rate.
YearBrackets(y) == <<<<400000, y - ThisYear + 10>>>>

\* IRS tables of one year, the current one, with every bracket sequence.
BracketIRS ==
    {[keys |-> <<ThisYear>>, rows |-> (ThisYear :> t)] : t \in BracketTables}

\* IRS tables with every order of year keys.
YearIRS ==
    {[keys |-> ks, rows |-> [y \in Range(ks) |-> YearBrackets(y)]] : ks \in KeySeqs}

\* Taxable incomes handed to irs.
TaxableChoices ==
    {Zero, Dec(1), Euro(1000), Dec(100001), Euro(2000), Euro(3000), Dec(1200001)}

\* The IRS tables the Income model is run with: the current year's, an
\* earlier year's, and one that holds no year up to the current one.
IncomeRows == <<<<700000, 15>>, <<4000000, 30>>, <<100000000, 45>>>>

IncomeIRS ==
    {[keys |-> <<y>>, rows |-> (y :> IncomeRows)] :
        y \in {ThisYear, ThisYear - 1, ThisYear + 1}}

\* Withholding ceilings, in cents, and withholding rates, in percent.
WithholdingCeilings == {100000, 300000}

WithholdingRates == {10, 30}

WithholdingTables ==
    {t \in UNION {[1..k -> WithholdingCeilings \X WithholdingRates] : k \in 1..MaxBrackets} :
        IsIncreasing(t)}

\* RETENTION tables: one year, the year after the current one or the current one.
RetentionTables ==
    {(y :> t) : y \in {ThisYear + 1, ThisYear}, t \in WithholdingTables}

DefaultRetention == (ThisYear + 1) :> <<<<100000, 10>>>>

SalaryChoices ==
    {Zero, Euro(300), Euro(1000), Mills(1000001), Euro(3200), Euro(7000)}

MonthChoices == {12, 14}

BonusChoices == {Euro(500), Euro(1000), Euro(5000)}

BonusSeqs == UNION {[1..k -> BonusChoices] : k \in 0..MaxBonus}

TaxfreeChoices == {Zero, Dec(10050)}

-----------------------------------------------------------------------------
(* The calls. *)

\* A top-level call irs(salary, num_people); hist keeps the last two.
CallIrs(salary, num_people) ==
    /\ hist' = (IF Len(hist) = 2 THEN Tail(hist) ELSE hist)
                 \o <<[salary |-> salary, num_people |-> num_people,
                       res |-> irs(IRS, now, salary, num_people)]>>
    /\ UNCHANGED <<now, IRS, RETENTION, inc, ret>>

Irs == \E salary \in TaxableChoices, num_people \in 1..MaxPeople :
           CallIrs(salary, num_people)

\* Income(salary, n_months, bonus, taxfree, n_people)
Construct ==
    /\ inc = NoIncome
    /\ \E salary \in SalaryChoices, n_months \in MonthChoices, bonus \in BonusSeqs,
          taxfree \in TaxfreeChoices, n_people \in 1..MaxPeople :
           inc' = NewIncome(now, salary, n_months, bonus, taxfree, n_people)
    /\ ret' = NoCall
    /\ UNCHANGED <<now, IRS, RETENTION, hist>>

Call(result) ==
    /\ inc # NoIncome
    /\ ret' = result
    /\ UNCHANGED <<now, IRS, RETENTION, inc, hist>>

Gross == Call(gross(inc))

Net == Call(net(inc, IRS, now))

NetSalary == Call(netsalary(inc, RETENTION))

NetBonus == Call(netbonus(inc, RETENTION))

-----------------------------------------------------------------------------
(* Specifications. *)

\* The tax function, called with every taxable income and household size,
\* on every bracket table and on every order of year keys.
InitIrs ==
    /\ \/ now = ThisYear /\ IRS \in BracketIRS
       \/ now \in NowChoices /\ IRS \in YearIRS
    /\ RETENTION = DefaultRetention
    /\ inc = NoIncome
    /\ ret = NoCall
    /\ hist = <<>>

NextIrs == Irs

SpecIrs == InitIrs /\ [][NextIrs]_vars

\* The Income model: one Income is constructed and its methods are called.
InitIncome ==
    /\ now = ThisYear
    /\ IRS \in IncomeIRS
    /\ RETENTION \in RetentionTables
    /\ inc = NoIncome
    /\ ret = NoCall
    /\ hist = <<>>

NextIncome == Construct \/ Gross \/ Net \/ NetSalary \/ NetBonus

SpecIncome == InitIncome /\ [][NextIncome]_vars

-----------------------------------------------------------------------------
(* The tax function: claims C1, C7, C9 (under SpecIrs). *)

Max(S) == CHOOSE x \in S : \A y \in S : y <= x

\* The year keys of the table that are not later than the current year.
Eligible == {y \in Range(IRS.keys) : y <= now}

\* C1: irs uses the brackets of the current year when it is a key of the
\* table, otherwise those of the most recent earlier key, and raises
\* IRSNotAvailable exactly when no key is less than or equal to the current
\* year, whatever the order of the keys.
C1_YearResolution ==
    \A i \in DOMAIN hist :
        /\ hist[i].res.raised <=> Eligible = {}
        /\ ~hist[i].res.raised =>
              /\ hist[i].res.year = Max(Eligible)
              /\ hist[i].res.brackets = IRS.rows[Max(Eligible)]

\* C7: for a taxable income I >= 0 and N >= 1 people, irs(I, N) >= 0,
\* irs(0, N) = 0, and irs is non-decreasing in I for a fixed N.
C7_NonNegativeMonotone ==
    /\ \A i \in DOMAIN hist :
          ~hist[i].res.raised =>
              /\ DecLeq(Zero, hist[i].res.value)
              /\ hist[i].salary = Zero => hist[i].res.value = Zero
    /\ \A i, j \in DOMAIN hist :
          /\ ~hist[i].res.raised
          /\ ~hist[j].res.raised
          /\ hist[i].num_people = hist[j].num_people
          /\ DecLeq(hist[i].salary, hist[j].salary)
          => DecLeq(hist[i].res.value, hist[j].res.value)

\* Two calls for the same household of several people, the second with a
\* larger income and a larger tax.
C7_Witness ==
    /\ Len(hist) = 2
    /\ ~hist[1].res.raised
    /\ hist[1].num_people = hist[2].num_people
    /\ hist[1].num_people > 1
    /\ Len(hist[1].res.brackets) > 1
    /\ DecLess(hist[1].salary, hist[2].salary)
    /\ DecLess(Zero, hist[1].res.value)
    /\ DecLess(hist[1].res.value, hist[2].res.value)

DecMin(a, b) == IF DecLess(b, a) THEN b ELSE a

\* The first bracket whose ceiling is >= x, or 0 when there is none.
FirstAtLeast(b, x) ==
    LET S == {k \in DOMAIN b : DecLeq(x, Dec(b[k][1]))}
    IN IF S = {} THEN 0 ELSE CHOOSE k \in S : \A m \in S : k <= m

\* The sum over the brackets 1..k of rate * (min(x, ceiling) - previous ceiling).
RECURSIVE SliceSum(_, _, _)
SliceSum(b, x, k) ==
    IF k = 0
    THEN Zero
    ELSE DecAdd(SliceSum(b, x, k - 1),
                DecMulRate(DecSub(DecMin(x, Dec(b[k][1])),
                                  IF k = 1 THEN Zero ELSE Dec(b[k - 1][1])),
                           b[k][2]))

\* C9: the walk taxes each slice of the per-person income x at its own rate:
\* the tax is the sum of rate * (min(x, ceiling) - previous ceiling) over the
\* brackets up to and including the first one whose ceiling is >= x, where the
\* walk stops; x equal to the first ceiling stops in the first bracket with
\* tax ceiling * rate.
C9_MarginalSlices ==
    \A i \in DOMAIN hist :
        ~hist[i].res.raised =>
            LET b == hist[i].res.brackets
                x == hist[i].res.salary
                first == FirstAtLeast(b, x)
                upto == IF first = 0 THEN Len(b) ELSE first
            IN /\ hist[i].res.stop = first
               /\ hist[i].res.value =
                      Quantize(DecMulInt(SliceSum(b, x, upto), hist[i].num_people))
               /\ x = Dec(b[1][1]) =>
                      /\ hist[i].res.stop = 1
                      /\ hist[i].res.value =
                             Quantize(DecMulInt(DecMulRate(Dec(b[1][1]), b[1][2]),
                                                hist[i].num_people))

\* A household of several people whose per-person income is exactly the
\* first ceiling of a table of several brackets.
C9_Witness ==
    \E i \in DOMAIN hist :
        /\ ~hist[i].res.raised
        /\ hist[i].num_people > 1
        /\ Len(hist[i].res.brackets) > 1
        /\ hist[i].res.salary = Dec(hist[i].res.brackets[1][1])
        /\ hist[i].res.stop = 1
        /\ DecLess(Zero, hist[i].res.value)

-----------------------------------------------------------------------------
(* The Income model: claims C2-C6, C8, C10 (under SpecIncome). *)

\* salary * n_months + sum(bonus), from the arguments of the constructor.
GrossIncome == DecAdd(DecMulInt(inc.salary, inc.n_months), DecSum(inc.bonus))

\* GrossIncome * 0.11.
Contribution == DecMulRate(GrossIncome, 11)

\* 4104 * n_people.
FlatCap == Euro(4104 * inc.n_people)

\* The rows of the withholding table of the Income's year.
Rows == RETENTION[inc.year]

\* The first withholding pair whose ceiling is strictly greater than the
\* amount, or 0 when there is none.
FirstAbove(amount) ==
    LET S == {k \in DOMAIN Rows : DecLess(amount, Dec(Rows[k][1]))}
    IN IF S = {} THEN 0 ELSE CHOOSE k \in S : \A m \in S : k <= m

\* amount * (1 - 0.11 - rate) rounded to 2 decimals, rate in percent.
NetAt(amount, rate) == Quantize(DecMulRate(amount, 100 - 11 - rate))

\* C2: netbonus() returns one net amount per bonus, in the order of the
\* bonuses: the result is as long as the bonus sequence and its k-th element
\* is the net value of the k-th bonus.
C2_OnePerBonus ==
    (ret.op = "netbonus" /\ ret.outcome = "list") =>
        /\ Len(ret.list) = Len(inc.bonus)
        /\ \A k \in DOMAIN inc.bonus :
              (k \in DOMAIN ret.list /\ FirstAbove(inc.bonus[k]) # 0) =>
                  ret.list[k] = NetAt(inc.bonus[k], Rows[FirstAbove(inc.bonus[k])][2])

\* C3: netsalary() and netbonus() compute each net amount with the rate of
\* the first withholding pair whose ceiling is strictly greater than the
\* amount; an amount equal to a ceiling takes the rate of the next pair.
C3_FirstPairAbove ==
    /\ (ret.op = "netsalary" /\ ret.outcome = "value") =>
          /\ FirstAbove(inc.salary) # 0
          /\ ret.value = NetAt(inc.salary, Rows[FirstAbove(inc.salary)][2])
    /\ (ret.op = "netbonus" /\ ret.outcome = "list") =>
          \A j \in DOMAIN ret.list :
              \E k \in DOMAIN inc.bonus :
                  /\ FirstAbove(inc.bonus[k]) # 0
                  /\ ret.list[j] = NetAt(inc.bonus[k], Rows[FirstAbove(inc.bonus[k])][2])

\* C4: net() computes contribution = income * 0.11; when 4104 * n_people is
\* greater than the contribution the taxable base is income - 4104 * n_people,
\* otherwise income - contribution; it calls irs on that base with n_people
\* and returns income - contribution - tax + taxfree rounded to 2 decimals.
C4_Net ==
    ret.op = "net" =>
        LET base == IF DecLess(Contribution, FlatCap)
                    THEN DecSub(GrossIncome, FlatCap)
                    ELSE DecSub(GrossIncome, Contribution)
            tax == irs(IRS, now, base, inc.n_people)
        IN /\ ret.collectable = base
           /\ tax.raised => ret.outcome = IRSNotAvailable
           /\ ~tax.raised =>
                 /\ ret.outcome = "value"
                 /\ ret.tax = tax.value
                 /\ ret.value =
                        Quantize(DecAdd(DecSub(DecSub(GrossIncome, Contribution),
                                               tax.value),
                                        inc.taxfree))

\* net() returned for an Income with an allowance whose contribution is
\* above the flat cap and whose tax is positive.
C4_Witness ==
    /\ ret.op = "net"
    /\ ret.outcome = "value"
    /\ DecLess(FlatCap, Contribution)
    /\ DecLess(Zero, ret.tax)
    /\ DecLess(Zero, inc.taxfree)
    /\ inc.n_people > 1

\* C5, as claimed: the branch of net() is selected by comparing the gross
\* income with 4104 * n_people: an income below it gets the base
\* income - contribution, an income above it gets income - 4104 * n_people.
C5_BranchByIncome ==
    ret.op = "net" =>
        /\ DecLess(GrossIncome, FlatCap) =>
              ret.collectable = DecSub(GrossIncome, Contribution)
        /\ DecLess(FlatCap, GrossIncome) =>
              ret.collectable = DecSub(GrossIncome, FlatCap)

\* C5, amended: the branch of net() is selected by comparing the contribution
\* (income * 0.11) with 4104 * n_people: a contribution below it gets the
\* flat-cap base income - 4104 * n_people, a contribution above it gets the
\* base income - contribution.
C5_BranchByContribution ==
    ret.op = "net" =>
        /\ DecLess(Contribution, FlatCap) =>
              ret.collectable = DecSub(GrossIncome, FlatCap)
        /\ DecLess(FlatCap, Contribution) =>
              ret.collectable = DecSub(GrossIncome, Contribution)

\* net() ran on an Income whose income is above 4104 * n_people and whose
\* contribution is above it too: the base is the contribution-based one.
C5_Witness ==
    /\ ret.op = "net"
    /\ DecLess(FlatCap, Contribution)
    /\ ret.collectable = DecSub(GrossIncome, Contribution)
    /\ ret.collectable # DecSub(GrossIncome, FlatCap)

\* C6: apart from IRSNotAvailable out of the tax function, gross(), net(),
\* netsalary() and netbonus() each return a monetary result: netsalary()
\* never ends without a value and the lookup of the withholding table for
\* the year after the current one never fails.
C6_Total ==
    ret.op # "" =>
        \/ ret.outcome \in {"value", "list"}
        \/ ret.op = "net" /\ ret.outcome = IRSNotAvailable

\* C8: gross() returns salary * n_months + sum(bonus) rounded to 2 decimal
\* places, also for inputs with more than 2 decimal places.
C8_GrossRounded ==
    ret.op = "gross" =>
        /\ ret.outcome = "value"
        /\ ret.value = Quantize(GrossIncome)

\* C10: the taxable base net() passes to irs is non-negative, the tax it
\* subtracts is not negative, and net() is at most
\* gross() - contribution + taxfree.
C10_BaseNonNegative ==
    ret.op = "net" =>
        /\ DecLeq(Zero, ret.collectable)
        /\ ret.outcome = "value" =>
              /\ DecLeq(Zero, ret.tax)
              /\ DecLeq(ret.value,
                        Quantize(DecAdd(DecSub(GrossIncome, Contribution), inc.taxfree)))

====
